---- MODULE Spec2Model ----
(***************************************************************************)
(* Model of the RDF position error calculator (rdf_python_model_2.py):     *)
(* the RDFPositionError model (calculate, get_results, print_results,      *)
(* export_to_excel), the InteractiveRDFPlotter event handlers (update,     *)
(* display_results, print_callback, export_callback), parametric_study     *)
(* and the three modes of the main entry point.                            *)
(*                                                                         *)
(* Numbers.  The program computes in IEEE doubles.  The model keeps        *)
(*   - metres as integers (1 m resolution),                                *)
(*   - radians as integers in units of 1/AngleScale rad,                   *)
(*   - degrees, sines, tangents, gdop and ratios in units of 1/Scale,      *)
(* every operation rounding to nearest as a float operation does, and      *)
(* the values a division can make non-finite as records                    *)
(* [k |-> "fin" | "inf" | "nan", v |-> Int].                               *)
(***************************************************************************)
EXTENDS Integers, Sequences, FiniteSets, TLC

VARIABLES pc, sliders, model, results_text, stdout, xlsx, study, probe

vars == <<pc, sliders, model, results_text, stdout, xlsx, study, probe>>

None == [k |-> "none"]

(***************************************************************************)
(* Bounds of the exploration.                                              *)
(***************************************************************************)
\* sensor and target coordinates range over -MaxCoord..MaxCoord grid steps
MaxCoord == 1
\* bearing errors range over 0..MaxErrDeg whole degrees
MaxErrDeg == 3
\* longest list of bearing errors / of ranges given to parametric_study
MaxLen == 2

(***************************************************************************)
(* Float arithmetic.                                                       *)
(***************************************************************************)
\* resolution of degrees, sines, tangents, gdop and ratios: 1/Scale
Scale == 1000
\* resolution of radians: 1/AngleScale
AngleScale == 10000

Fin(v) == [k |-> "fin", v |-> v]
Inf == [k |-> "inf", v |-> 1]
NegInf == [k |-> "inf", v |-> -1]
NaN == [k |-> "nan", v |-> 0]

IsFinite(x) == x.k = "fin"
IsNaN(x) == x.k = "nan"
IsPosInf(x) == x.k = "inf" /\ x.v > 0

Abs(a) == IF a < 0 THEN -a ELSE a
Max(a, b) == IF a > b THEN a ELSE b

\* a / b rounded to the nearest integer (\div rounds down), b > 0
RDiv(a, b) == (2 * a + b) \div (2 * b)

\* numpy float64 division a / b of two finite values, the quotient in units
\* of 1/unit: x / 0 is +-inf and 0 / 0 is nan (a RuntimeWarning, no exception)
FDiv(a, b, unit) ==
    IF b = 0 THEN (IF a = 0 THEN NaN ELSE IF a > 0 THEN Inf ELSE NegInf)
    ELSE IF b > 0 THEN Fin(RDiv(a * unit, b))
    ELSE Fin(-RDiv(a * unit, -b))

\* the largest r in lo..hi with r * r <= n, by bisection
SqrtFloor[n \in Nat, lo \in Nat, hi \in Nat] ==
    IF lo >= hi THEN lo
    ELSE IF ((lo + hi + 1) \div 2) * ((lo + hi + 1) \div 2) <= n
         THEN SqrtFloor[n, (lo + hi + 1) \div 2, hi]
         ELSE SqrtFloor[n, lo, ((lo + hi + 1) \div 2) - 1]

\* r or r + 1, whichever is nearer to the square root of n
SqrtRound[n \in Nat, r \in Nat] == IF n - r * r > r THEN r + 1 ELSE r

\* np.sqrt, rounded to the nearest integer
Sqrt(n) == SqrtRound[n, SqrtFloor[n, 0, 46340]]

\* np.pi, and the half and the quarter of it, in units of 1/AngleScale rad
PI == 31416
HALF_PI == PI \div 2
QUARTER_PI == PI \div 4

\* sine of x in 0..HALF_PI by its Taylor series (Horner form), times Scale
SinSeries(x) ==
    LET u  == RDiv(x * x, AngleScale)
        t4 == AngleScale - RDiv(u, 72)
        t3 == AngleScale - RDiv(RDiv(u * t4, AngleScale), 42)
        t2 == AngleScale - RDiv(RDiv(u * t3, AngleScale), 20)
        t1 == AngleScale - RDiv(RDiv(u * t2, AngleScale), 6)
    IN RDiv(x * t1, (AngleScale \div Scale) * AngleScale)

\* np.sin for x in 0..PI.  float(pi) is not pi and no nonzero double has a
\* sine of 0.0 (np.sin(np.radians(180.0)) = 1.2246e-16): a sine that is
\* below the resolution for a nonzero argument stays positive.
Sin(x) ==
    IF x = 0 THEN 0
    ELSE Max(1, SinSeries(IF x <= HALF_PI THEN x ELSE PI - x))

\* np.cos, np.tan for x in 0..HALF_PI (tan below HALF_PI)
Cos(x) == IF x = HALF_PI THEN 0 ELSE SinSeries(HALF_PI - x)
Tan(x) == RDiv(Sin(x) * Scale, Cos(x))

\* arctangent of w / AngleScale for w / AngleScale <= tan(pi / 8), by its
\* Taylor series (Horner form)
AtanSeries(w) ==
    LET v  == RDiv(w * w, AngleScale)
        a5 == RDiv(AngleScale, 11)
        a4 == RDiv(AngleScale, 9) - RDiv(v * a5, AngleScale)
        a3 == RDiv(AngleScale, 7) - RDiv(v * a4, AngleScale)
        a2 == RDiv(AngleScale, 5) - RDiv(v * a3, AngleScale)
        a1 == RDiv(AngleScale, 3) - RDiv(v * a2, AngleScale)
        a0 == AngleScale - RDiv(v * a1, AngleScale)
    IN RDiv(w * a0, AngleScale)

\* arctangent of p / q for 0 <= p <= q, q > 0
Atan(p, q) ==
    LET z == RDiv(p * AngleScale, q)
    IN IF z <= 4142 THEN AtanSeries(z)
       ELSE QUARTER_PI
            - AtanSeries(RDiv((AngleScale - z) * AngleScale, AngleScale + z))

\* variants: the sign of the first component lost; the vertical direction
\* decided before the zero vector
arctan2_unsigned(a, b) ==
    IF a = 0 /\ b = 0 THEN 0
    ELSE LET p == Abs(a)
             q == Abs(b)
             base == IF p <= q THEN Atan(p, q) ELSE HALF_PI - Atan(q, p)
         IN IF b >= 0 THEN base ELSE PI - base
arctan2_vertical_first(a, b) ==
    IF b = 0 THEN (IF a >= 0 THEN HALF_PI ELSE -HALF_PI)
    ELSE LET p == Abs(a)
             q == Abs(b)
             base == IF p <= q THEN Atan(p, q) ELSE HALF_PI - Atan(q, p)
         IN IF b >= 0 THEN (IF a >= 0 THEN base ELSE -base)
            ELSE (IF a >= 0 THEN PI - base ELSE base - PI)

\* np.arctan2(a, b): the angle in (-PI, PI] of the direction with sine
\* component a and cosine component b; arctan2(0, 0) = 0
arctan2(a, b) ==
    IF a = 0 /\ b = 0 THEN 0
    ELSE LET p == Abs(a)
             q == Abs(b)
             base == IF p <= q THEN Atan(p, q) ELSE HALF_PI - Atan(q, p)
         IN IF b >= 0 THEN (IF a >= 0 THEN base ELSE -base)
            ELSE (IF a >= 0 THEN PI - base ELSE base - PI)

\* np.degrees: radians (1/AngleScale) to degrees (1/Scale); 180 / pi taken as
\* 180 * Scale / PI = 7500 / 1309
degrees(x) == RDiv(x * 7500, 1309)
\* np.radians: degrees (1/Scale) to radians (1/AngleScale)
radians(d) == RDiv(d * 1309, 7500)

\* np.linalg.norm of a 2-vector, in metres
norm(d) == Sqrt(d[1] * d[1] + d[2] * d[2])

(***************************************************************************)
(* RDFPositionError.calculate                                              *)
(***************************************************************************)
\* the sine below which the geometry counts as poor: 0.1
PoorSine == Scale \div 10

\* a variant that forgets to fold the difference at pi
intersection_angle_deg_unfolded(bearing1, bearing2) ==
    degrees(Abs(bearing1 - bearing2))

\* intersection = abs(bearing1 - bearing2), folded at pi, in degrees
intersection_angle_deg(bearing1, bearing2) ==
    LET intersection == Abs(bearing1 - bearing2)
    IN degrees(IF intersection > PI THEN 2 * PI - intersection
                                     ELSE intersection)

sin_intersection(angle_deg) == Abs(Sin(radians(angle_deg)))

\* a variant that divides by the square of the sine
gdop_squared(sin_int) ==
    IF sin_int > 0 THEN FDiv(Scale * Scale, sin_int * sin_int, Scale) ELSE Inf
gdop(sin_int) == IF sin_int > 0 THEN FDiv(Scale, sin_int, Scale) ELSE Inf

\* variants: the cosine in place of the tangent; the error budget ignored
lateral_error_cos(range, bearing_error_rad) ==
    RDiv(range * Cos(bearing_error_rad), Scale)
lateral_error_fixed(range, bearing_error_rad) ==
    RDiv(range * Tan(radians(Scale)), Scale)

\* range * np.tan(bearing_error_rad)
lateral_error(range, bearing_error_rad) ==
    RDiv(range * Tan(bearing_error_rad), Scale)

\* variants: no poor-geometry branch; the branch taken below 0.01
max_position_error_divides(lateral_error1, lateral_error2, sin_int) ==
    FDiv(Sqrt(lateral_error1 * lateral_error1
              + lateral_error2 * lateral_error2) * Scale, sin_int, 1)
max_position_error_late(lateral_error1, lateral_error2, sin_int) ==
    IF sin_int < PoorSine \div 10
    THEN Fin(Max(lateral_error1, lateral_error2) * 10)
    ELSE FDiv(Sqrt(lateral_error1 * lateral_error1
                   + lateral_error2 * lateral_error2) * Scale, sin_int, 1)

max_position_error(lateral_error1, lateral_error2, sin_int) ==
    IF sin_int < PoorSine
    THEN Fin(Max(lateral_error1, lateral_error2) * 10)
    ELSE FDiv(Sqrt(lateral_error1 * lateral_error1
                   + lateral_error2 * lateral_error2) * Scale, sin_int, 1)

\* max_position_error / max(range1, range2)
error_range_ratio(max_pos, range1, range2) ==
    IF IsFinite(max_pos) THEN FDiv(max_pos.v, Max(range1, range2), Scale)
    ELSE max_pos

\* RDFPositionError(sensor1_pos, sensor2_pos, target_pos, bearing_error_deg):
\* __init__ stores the inputs and runs calculate
RDFPositionError(s1, s2, target, bearing_error_deg) ==
    LET bearing_error_rad == radians(bearing_error_deg)
        delta1 == <<target[1] - s1[1], target[2] - s1[2]>>
        delta2 == <<target[1] - s2[1], target[2] - s2[2]>>
        range1 == norm(delta1)
        range2 == norm(delta2)
        bearing1 == arctan2(delta1[1], delta1[2])
        bearing2 == arctan2(delta2[1], delta2[2])
        angle_deg == intersection_angle_deg(bearing1, bearing2)
        lateral1 == lateral_error(range1, bearing_error_rad)
        lateral2 == lateral_error(range2, bearing_error_rad)
        sin_int == sin_intersection(angle_deg)
        max_pos == max_position_error(lateral1, lateral2, sin_int)
    IN [k |-> "model",
        s1 |-> s1, s2 |-> s2, target |-> target,
        bearing_error_deg |-> bearing_error_deg,
        bearing_error_rad |-> bearing_error_rad,
        range1 |-> range1, range2 |-> range2,
        bearing1 |-> bearing1, bearing2 |-> bearing2,
        intersection_angle_deg |-> angle_deg,
        baseline |-> norm(<<s2[1] - s1[1], s2[2] - s1[2]>>),
        lateral_error1 |-> lateral1, lateral_error2 |-> lateral2,
        gdop |-> gdop(sin_int),
        max_position_error |-> max_pos,
        error_range_ratio |-> error_range_ratio(max_pos, range1, range2)]

(***************************************************************************)
(* Formatting: f"{x:.Nf}"                                                  *)
(***************************************************************************)
RECURSIVE Pow10(_)
Pow10(d) == IF d = 0 THEN 1 ELSE 10 * Pow10(d - 1)

\* x * c for a float x and a finite constant c > 0
FMul(x, c) == IF IsFinite(x) THEN Fin(x.v * c) ELSE x

\* x > c for a float x in units of 1/unit: false for nan, true for +inf
FGt(x, c, unit) ==
    IF IsFinite(x) THEN x.v > c * unit ELSE IsPosInf(x)

\* a variant that clamps what is not finite to 0
format_clamped(x, unit, d) ==
    [k |-> "number", negative |-> IsFinite(x) /\ x.v < 0,
     digits |-> IF IsFinite(x) THEN RDiv(Abs(x.v) * Pow10(d), unit) ELSE 0,
     decimals |-> d]

\* f"{x:.df}" of a float x in units of 1/unit: the sign and the digits of x
\* rounded to d decimals, or the text "inf" / "-inf" / "nan"
format(x, unit, d) ==
    IF IsNaN(x) THEN [k |-> "text", text |-> "nan"]
    ELSE IF ~IsFinite(x)
         THEN [k |-> "text", text |-> IF x.v > 0 THEN "inf" ELSE "-inf"]
    ELSE [k |-> "number", negative |-> x.v < 0,
          digits |-> RDiv(Abs(x.v) * Pow10(d), unit), decimals |-> d]

\* f"({p[0]:.1f}, {p[1]:.1f})"
format_position(p) == <<format(Fin(p[1]), 1, 1), format(Fin(p[2]), 1, 1)>>

(***************************************************************************)
(* RDFPositionError.get_results, print_results, export_to_excel            *)
(***************************************************************************)
\* the angle below which print_results and display_results warn (30 deg)
PoorAngleDeg == 30
\* the gdop above which print_results and display_results warn (5)
HighGdop == 5

\* a variant that gives the ratio one decimal
get_results_ratio_short(m) ==
    << <<"Sensor 1 Position (m)", format_position(m.s1)>>,
       <<"Sensor 2 Position (m)", format_position(m.s2)>>,
       <<"Target Position (m)", format_position(m.target)>>,
       <<"Bearing Error (deg)", format(Fin(m.bearing_error_deg), Scale, 2)>>,
       <<"Baseline Distance (m)", format(Fin(m.baseline), 1, 1)>>,
       <<"Range to Sensor 1 (m)", format(Fin(m.range1), 1, 1)>>,
       <<"Range to Sensor 2 (m)", format(Fin(m.range2), 1, 1)>>,
       <<"Intersection Angle (deg)",
         format(Fin(m.intersection_angle_deg), Scale, 1)>>,
       <<"GDOP", format(m.gdop, Scale, 2)>>,
       <<"Lateral Error S1 (m)", format(Fin(m.lateral_error1), 1, 1)>>,
       <<"Lateral Error S2 (m)", format(Fin(m.lateral_error2), 1, 1)>>,
       <<"Max Position Error (m)", format(m.max_position_error, 1, 1)>>,
       <<"Error/Range Ratio (%)",
         format(FMul(m.error_range_ratio, 100), Scale, 1)>> >>

\* what print_results writes: the table of get_results, then the warnings

get_results(m) ==
    << <<"Sensor 1 Position (m)", format_position(m.s1)>>,
       <<"Sensor 2 Position (m)", format_position(m.s2)>>,
       <<"Target Position (m)", format_position(m.target)>>,
       <<"Bearing Error (deg)", format(Fin(m.bearing_error_deg), Scale, 2)>>,
       <<"Baseline Distance (m)", format(Fin(m.baseline), 1, 1)>>,
       <<"Range to Sensor 1 (m)", format(Fin(m.range1), 1, 1)>>,
       <<"Range to Sensor 2 (m)", format(Fin(m.range2), 1, 1)>>,
       <<"Intersection Angle (deg)",
         format(Fin(m.intersection_angle_deg), Scale, 1)>>,
       <<"GDOP", format(m.gdop, Scale, 2)>>,
       <<"Lateral Error S1 (m)", format(Fin(m.lateral_error1), 1, 1)>>,
       <<"Lateral Error S2 (m)", format(Fin(m.lateral_error2), 1, 1)>>,
       <<"Max Position Error (m)", format(m.max_position_error, 1, 1)>>,
       <<"Error/Range Ratio (%)",
         format(FMul(m.error_range_ratio, 100), Scale, 2)>> >>

\* what print_results writes: the table of get_results, then the warnings
print_results(m) ==
    [k |-> "printed",
     results |-> get_results(m),
     warnings |->
        (IF m.intersection_angle_deg < PoorAngleDeg * Scale
         THEN <<"Poor geometry">> ELSE <<>>)
        \o (IF FGt(m.gdop, HighGdop, Scale)
            THEN <<"High GDOP">> ELSE <<>>)]

\* the two sheets export_to_excel hands to pandas
export_to_excel(m, filename) ==
    [k |-> "workbook", filename |-> filename,
     Configuration |->
        << <<"Sensor 1 X (m)", Fin(m.s1[1])>>,
           <<"Sensor 1 Y (m)", Fin(m.s1[2])>>,
           <<"Sensor 2 X (m)", Fin(m.s2[1])>>,
           <<"Sensor 2 Y (m)", Fin(m.s2[2])>>,
           <<"Target X (m)", Fin(m.target[1])>>,
           <<"Target Y (m)", Fin(m.target[2])>>,
           <<"Bearing Error (deg)", Fin(m.bearing_error_deg)>> >>,
     Results |->
        << <<"Baseline Distance (m)", Fin(m.baseline)>>,
           <<"Range to Sensor 1 (m)", Fin(m.range1)>>,
           <<"Range to Sensor 2 (m)", Fin(m.range2)>>,
           <<"Intersection Angle (deg)", Fin(m.intersection_angle_deg)>>,
           <<"GDOP", m.gdop>>,
           <<"Lateral Error S1 (m)", Fin(m.lateral_error1)>>,
           <<"Lateral Error S2 (m)", Fin(m.lateral_error2)>>,
           <<"Max Position Error (m)", m.max_position_error>>,
           <<"Error/Range Ratio (%)", FMul(m.error_range_ratio, 100)>> >>]

(***************************************************************************)
(* InteractiveRDFPlotter.display_results                                   *)
(***************************************************************************)
display_results(m) ==
    [k |-> "results_text",
     max_position_error |-> format(m.max_position_error, 1, 0),
     baseline |-> format(Fin(m.baseline), 1, 0),
     range1 |-> format(Fin(m.range1), 1, 0),
     range2 |-> format(Fin(m.range2), 1, 0),
     intersection_angle |-> format(Fin(m.intersection_angle_deg), Scale, 1),
     gdop |-> format(m.gdop, Scale, 2),
     error_range |-> format(FMul(m.error_range_ratio, 100), Scale, 2),
     status |->
        IF m.intersection_angle_deg < PoorAngleDeg * Scale
        THEN "POOR GEOMETRY"
        ELSE IF FGt(m.gdop, HighGdop, Scale) THEN "HIGH GDOP"
        ELSE "Good Geometry"]

(***************************************************************************)
(* Inputs.                                                                 *)
(***************************************************************************)
\* metres per kilometre: the sliders are in km, the model in m
KM == 1000
\* a target far enough for nearly parallel bearings, in km
FarKm == 12

\* the values InteractiveRDFPlotter.__init__ starts from
Defaults == [s1_x |-> -5000, s1_y |-> 0, s2_x |-> 5000, s2_y |-> 0,
             target_x |-> 0, target_y |-> 8000, bearing_error |-> 2]

\* coordinates typed at the prompts of the single calculation, in metres
Xs == {c * KM : c \in -MaxCoord..MaxCoord}
SensorYs == {0, KM}
TargetYs == {0, KM, FarKm * KM}
\* bearing errors typed at the prompts, in degrees (1/Scale)
BearingErrors == {e * Scale : e \in 0..MaxErrDeg}

\* the values the sliders are moved to, in km (the target y slider starts
\* at 0) and in degrees (the bearing error slider starts at 0.1)
SliderValues(name) ==
    LET step == Defaults.s2_x \div KM
    IN CASE name \in {"s1x", "s2x", "tx"}
              -> {c * step : c \in -MaxCoord..MaxCoord}
         [] name \in {"s1y", "s2y"}
              -> {0, step}
         [] name = "ty"
              -> {0, step, Defaults.target_y \div KM}
         [] name = "err"
              -> 1..MaxErrDeg

SliderNames == {"s1x", "s1y", "s2x", "s2y", "tx", "ty", "err"}

\* the arguments parametric_study is called with
StudyErrors == UNION {[1..n -> {0, MaxErrDeg * Scale}] : n \in 0..MaxLen}
StudyRanges == UNION {[1..n -> {0, KM, FarKm * KM}] : n \in 0..MaxLen}
StudyBaselines == {0, 2 * MaxCoord * KM}

(***************************************************************************)
(* The program.                                                            *)
(***************************************************************************)
Init ==
    /\ pc = "menu"
    /\ sliders = None
    /\ model = None
    /\ results_text = None
    /\ stdout = None
    /\ xlsx = None
    /\ study = None
    /\ probe = None

\* update: read the sliders (km to m), build the model
slider_model(s) ==
    RDFPositionError(<<s.s1x * KM, s.s1y * KM>>, <<s.s2x * KM, s.s2y * KM>>,
                     <<s.tx * KM, s.ty * KM>>, s.err * Scale)

\* choice "1": InteractiveRDFPlotter.__init__ sets the sliders to the
\* defaults and runs update(None)
InteractiveRDFPlotter ==
    /\ pc = "menu"
    /\ LET s == [s1x |-> Defaults.s1_x \div KM, s1y |-> Defaults.s1_y \div KM,
                 s2x |-> Defaults.s2_x \div KM, s2y |-> Defaults.s2_y \div KM,
                 tx |-> Defaults.target_x \div KM,
                 ty |-> Defaults.target_y \div KM,
                 err |-> Defaults.bearing_error]
       IN /\ sliders' = s
          /\ model' = slider_model(s)
          /\ results_text' = display_results(slider_model(s))
    /\ pc' = "gui"
    /\ UNCHANGED <<stdout, xlsx, study, probe>>

\* a slider is moved: update rebuilds the model and redraws the results.
\* (Exploration stops moving sliders once something was printed or
\* exported: no handler reads back what was written.)
update(name, val) ==
    /\ pc = "gui"
    /\ stdout = None /\ xlsx = None
    /\ sliders' = [sliders EXCEPT ![name] = val]
    /\ model' = slider_model(sliders')
    /\ results_text' = display_results(model')
    /\ UNCHANGED <<pc, stdout, xlsx, study, probe>>

\* the Print Results button
print_callback ==
    /\ pc = "gui"
    /\ stdout' = print_results(model)
    /\ UNCHANGED <<pc, sliders, model, results_text, xlsx, study, probe>>

\* the Export to Excel button
export_callback ==
    /\ pc = "gui"
    /\ xlsx' = export_to_excel(model, "rdf_interactive_results.xlsx")
    /\ UNCHANGED <<pc, sliders, model, results_text, stdout, study, probe>>

\* choice "2": the inputs are read, the model is built and printed
single_calculation(s1, s2, target, bearing_err) ==
    /\ pc = "menu"
    /\ model' = RDFPositionError(s1, s2, target, bearing_err)
    /\ stdout' = print_results(model')
    /\ pc' = "single"
    /\ UNCHANGED <<sliders, results_text, xlsx, study, probe>>

\* choice "2", "Export to Excel? (y/n)"
single_export(answer) ==
    /\ pc = "single"
    /\ xlsx' = IF answer # "n"
               THEN export_to_excel(model, "rdf_single_analysis.xlsx")
               ELSE xlsx
    /\ pc' = "done"
    /\ UNCHANGED <<sliders, model, results_text, stdout, study, probe>>

\* one row of the parametric study
study_row(bearing_error, target_range, baseline) ==
    LET s1 == <<-(baseline \div 2), 0>>
        s2 == <<baseline \div 2, 0>>
        target == <<0, target_range>>
        m == RDFPositionError(s1, s2, target, bearing_error)
    IN [bearing_error |-> bearing_error,
        target_range |-> target_range,
        baseline |-> baseline,
        intersection_angle |-> m.intersection_angle_deg,
        gdop |-> m.gdop,
        max_position_error |-> m.max_position_error,
        error_range |-> FMul(m.error_range_ratio, 100)]

\* choice "3": parametric_study is called; results = []
parametric_study(bearing_errors, ranges, baseline) ==
    /\ pc = "menu"
    /\ study' = [bearing_errors |-> bearing_errors, ranges |-> ranges,
                 baseline |-> baseline, i |-> 1, j |-> 1,
                 results |-> <<>>, df |-> None]
    /\ pc' = "study"
    /\ UNCHANGED <<sliders, model, results_text, stdout, xlsx, probe>>

\* a variant with the loops exchanged: ranges outside, bearing errors inside
study_step_exchanged ==
    /\ pc = "study"
    /\ study.i <= Len(study.bearing_errors)
    /\ study.j <= Len(study.ranges)
    /\ LET row == study_row(study.bearing_errors[study.i],
                            study.ranges[study.j], study.baseline)
           last == study.i = Len(study.bearing_errors)
       IN study' = [study EXCEPT
                       !.results = Append(@, row),
                       !.j = IF last THEN @ + 1 ELSE @,
                       !.i = IF last THEN 1 ELSE @ + 1]
    /\ UNCHANGED <<pc, sliders, model, results_text, stdout, xlsx, probe>>

\* one pass of the inner loop body: a model is built and a row appended
study_step ==
    /\ pc = "study"
    /\ study.i <= Len(study.bearing_errors)
    /\ study.j <= Len(study.ranges)
    /\ LET row == study_row(study.bearing_errors[study.i],
                            study.ranges[study.j], study.baseline)
           last == study.j = Len(study.ranges)
       IN study' = [study EXCEPT
                       !.results = Append(@, row),
                       !.i = IF last THEN @ + 1 ELSE @,
                       !.j = IF last THEN 1 ELSE @ + 1]
    /\ UNCHANGED <<pc, sliders, model, results_text, stdout, xlsx, probe>>

\* the loops are over: df = pd.DataFrame(results) is written and returned
study_return ==
    /\ pc = "study"
    /\ \/ study.i > Len(study.bearing_errors)
       \/ study.j > Len(study.ranges)
    /\ study' = [study EXCEPT !.df = study.results]
    /\ pc' = "done"
    /\ UNCHANGED <<sliders, model, results_text, stdout, xlsx, probe>>

\* any other choice: "Invalid choice. Exiting."
invalid_choice ==
    /\ pc = "menu"
    /\ pc' = "done"
    /\ UNCHANGED <<sliders, model, results_text, stdout, xlsx, study, probe>>

Next ==
    \/ InteractiveRDFPlotter
    \/ \E name \in SliderNames : \E val \in SliderValues(name) :
          update(name, val)
    \/ print_callback
    \/ export_callback
    \/ \E s1 \in Xs \X SensorYs, s2 \in Xs \X SensorYs,
          target \in Xs \X TargetYs, e \in BearingErrors :
          single_calculation(s1, s2, target, e)
    \/ \E answer \in {"y", "n"} : single_export(answer)
    \/ \E bearing_errors \in StudyErrors, ranges \in StudyRanges,
          baseline \in StudyBaselines :
          parametric_study(bearing_errors, ranges, baseline)
    \/ study_step
    \/ study_return
    \/ invalid_choice

Spec == Init /\ [][Next]_vars

(***************************************************************************)
(* The pure functions of calculate on inputs of their own.                 *)
(***************************************************************************)
\* bearings are tried every PI / BearingSteps, and one unit to each side
BearingSteps == 12

Bearings ==
    {b \in {((k * PI) \div BearingSteps) + d : k \in -BearingSteps..BearingSteps,
                                           d \in {-1, 0, 1}} :
        -PI <= b /\ b <= PI}

\* two bearings in the range of arctan2
InitBearings ==
    /\ pc = "bearings"
    /\ probe \in [bearing1 : Bearings, bearing2 : Bearings, done : {FALSE}]
    /\ sliders = None /\ model = None /\ results_text = None
    /\ stdout = None /\ xlsx = None /\ study = None

\* lines 51-55 of calculate on the two bearings
intersect ==
    /\ pc = "bearings"
    /\ ~probe.done
    /\ probe' = [bearing1 |-> probe.bearing1, bearing2 |-> probe.bearing2,
                 done |-> TRUE,
                 intersection_angle_deg |->
                    intersection_angle_deg(probe.bearing1, probe.bearing2)]
    /\ UNCHANGED <<pc, sliders, model, results_text, stdout, xlsx, study>>

SpecBearings == InitBearings /\ [][intersect]_vars

\* two intersection angles, whole degrees in 0..180
InitAngles ==
    /\ pc = "angles"
    /\ probe \in [a : {d * Scale : d \in 0..180},
                  b : {d * Scale : d \in 0..180}, done : {FALSE}]
    /\ sliders = None /\ model = None /\ results_text = None
    /\ stdout = None /\ xlsx = None /\ study = None

\* lines 65-68 of calculate on each of the two angles
dilute ==
    /\ pc = "angles"
    /\ ~probe.done
    /\ probe' = [a |-> probe.a, b |-> probe.b, done |-> TRUE,
                 gdop_a |-> gdop(sin_intersection(probe.a)),
                 gdop_b |-> gdop(sin_intersection(probe.b))]
    /\ UNCHANGED <<pc, sliders, model, results_text, stdout, xlsx, study>>

SpecAngles == InitAngles /\ [][dilute]_vars

\* one geometry and two bearing errors, the first the smaller
InitErrors ==
    /\ pc = "errors"
    /\ probe \in {p \in [s1 : Xs \X SensorYs, s2 : Xs \X SensorYs,
                         target : Xs \X TargetYs,
                         e1 : BearingErrors, e2 : BearingErrors,
                         done : {FALSE}] : p.e1 < p.e2}
    /\ sliders = None /\ model = None /\ results_text = None
    /\ stdout = None /\ xlsx = None /\ study = None

\* the model is built for each of the two bearing errors
evaluate ==
    /\ pc = "errors"
    /\ ~probe.done
    /\ probe' = [done |-> TRUE,
                 m1 |-> RDFPositionError(probe.s1, probe.s2, probe.target,
                                         probe.e1),
                 m2 |-> RDFPositionError(probe.s1, probe.s2, probe.target,
                                         probe.e2)]
    /\ UNCHANGED <<pc, sliders, model, results_text, stdout, xlsx, study>>

SpecErrors == InitErrors /\ [][evaluate]_vars

(***************************************************************************)
(* Properties.                                                             *)
(***************************************************************************)
\* x <= y and x < y for floats that are finite or +inf
FLe(x, y) == IF IsFinite(x) /\ IsFinite(y) THEN x.v <= y.v ELSE IsPosInf(y)
FLt(x, y) == IF IsFinite(x) /\ IsFinite(y) THEN x.v < y.v
             ELSE IsFinite(x) /\ IsPosInf(y)

\* the value under a label in a table of <<label, value>> rows
HasLabel(table, label) == \E n \in 1..Len(table) : table[n][1] = label
ValueOf(table, label) ==
    table[CHOOSE n \in 1..Len(table) : table[n][1] = label][2]

InfText == [k |-> "text", text |-> "inf"]

\* C1 (as claimed): for finite inputs and a bearing error >= 0 every derived
\* field of a calculated model other than gdop is a finite number, the
\* degenerate cases sensor1 = sensor2, target = sensor1 and
\* sensor1 = sensor2 = target included.
C1_DerivedFieldsFinite ==
    model # None =>
        /\ model.range1 \in Int /\ model.range2 \in Int
        /\ model.bearing1 \in Int /\ model.bearing2 \in Int
        /\ model.intersection_angle_deg \in Int
        /\ model.baseline \in Int
        /\ model.lateral_error1 \in Int /\ model.lateral_error2 \in Int
        /\ IsFinite(model.max_position_error)
        /\ IsFinite(model.error_range_ratio)

\* C2: a model with sensor1 = sensor2 has baseline 0, gdop +inf and a
\* max_position_error of max(lateral_error1, lateral_error2) * 10, the
\* poor-geometry fallback and not the quotient.
C2_CoincidentSensors ==
    (model # None /\ model.s1 = model.s2) =>
        /\ model.baseline = 0
        /\ IsPosInf(model.gdop)
        /\ model.max_position_error
             = Fin(Max(model.lateral_error1, model.lateral_error2) * 10)

\* a model of coincident sensors and a target elsewhere, bearing error > 0
C2_Witness ==
    /\ model # None
    /\ model.s1 = model.s2
    /\ model.target # model.s1
    /\ model.lateral_error1 > 0

\* C3: for any two bearings in [-pi, pi] the intersection angle, the absolute
\* difference folded at 180 degrees, lies in [0, 180] degrees.
C3_AngleRange ==
    (pc = "bearings" /\ probe.done) =>
        /\ 0 <= probe.intersection_angle_deg
        /\ probe.intersection_angle_deg <= 180 * Scale

\* two bearings more than pi apart, the angle computed
C3_Witness ==
    /\ pc = "bearings"
    /\ probe.done
    /\ Abs(probe.bearing1 - probe.bearing2) > PI

\* C4: max_position_error is max(lateral_error1, lateral_error2) * 10 when
\* sin_intersection < 0.1 and sqrt(lateral_error1^2 + lateral_error2^2) /
\* sin_intersection (to rounding) otherwise; equal bearings take the fallback.
C4_BranchBySine ==
    model # None =>
        LET sin_int == sin_intersection(model.intersection_angle_deg)
            fallback == Max(model.lateral_error1, model.lateral_error2) * 10
            root == Sqrt(model.lateral_error1 * model.lateral_error1
                         + model.lateral_error2 * model.lateral_error2)
            mpe == model.max_position_error
        IN /\ sin_int < PoorSine => mpe = Fin(fallback)
           /\ sin_int >= PoorSine =>
                 /\ IsFinite(mpe)
                 /\ 2 * Abs(mpe.v * sin_int - root * Scale) <= sin_int
           /\ model.bearing1 = model.bearing2 => mpe = Fin(fallback)

\* nearly parallel, not equal, bearings where the two formulas differ
C4_Witness ==
    /\ model # None
    /\ model.bearing1 # model.bearing2
    /\ sin_intersection(model.intersection_angle_deg) < PoorSine
    /\ model.lateral_error1 > 0
    /\ model.max_position_error
         # max_position_error_divides(
              model.lateral_error1, model.lateral_error2,
              sin_intersection(model.intersection_angle_deg))

\* C5 (as claimed): gdop depends on the intersection angle only and does not
\* decrease as the angle moves away from 90 degrees: for angles a, b in
\* [0, 180] with |a - 90| <= |b - 90|, gdop(a) <= gdop(b); gdop(90) = 1.
C5_GdopMonotone ==
    (pc = "angles" /\ probe.done) =>
        /\ Abs(probe.a - 90 * Scale) <= Abs(probe.b - 90 * Scale)
              => FLe(probe.gdop_a, probe.gdop_b)
        /\ probe.a = 90 * Scale => probe.gdop_a = Fin(Scale)

\* C6: with a bearing error of 0 both lateral errors and max_position_error
\* are 0, whatever the geometry and the branch.
C6_ZeroError ==
    (model # None /\ model.bearing_error_deg = 0) =>
        /\ model.lateral_error1 = 0
        /\ model.lateral_error2 = 0
        /\ model.max_position_error = Fin(0)

\* a bearing error of 0 on the quotient branch, the target away from both
C6_Witness ==
    /\ model # None
    /\ model.bearing_error_deg = 0
    /\ model.range1 > 0 /\ model.range2 > 0
    /\ sin_intersection(model.intersection_angle_deg) >= PoorSine

\* C7 (as claimed): for a fixed geometry and bearing errors 0 <= e1 < e2 < 90
\* each lateral error is strictly greater at e2 than at e1, and so is
\* max_position_error on the quotient branch.
C7_StrictlyIncreasing ==
    (pc = "errors" /\ probe.done) =>
        /\ probe.m2.lateral_error1 > probe.m1.lateral_error1
        /\ probe.m2.lateral_error2 > probe.m1.lateral_error2
        /\ sin_intersection(probe.m1.intersection_angle_deg) >= PoorSine
              => FLt(probe.m1.max_position_error,
                     probe.m2.max_position_error)

\* C7 (amended): lateral_error_i is strictly greater at e2 than at e1 when
\* range_i > 0 and is 0 at both when range_i = 0; max_position_error is
\* strictly greater at e2 on the quotient branch.
C7_IncreasingWhereRangePositive ==
    (pc = "errors" /\ probe.done) =>
        /\ probe.m1.range1 > 0
              => probe.m2.lateral_error1 > probe.m1.lateral_error1
        /\ probe.m1.range2 > 0
              => probe.m2.lateral_error2 > probe.m1.lateral_error2
        /\ probe.m1.range1 = 0
              => probe.m1.lateral_error1 = 0 /\ probe.m2.lateral_error1 = 0
        /\ probe.m1.range2 = 0
              => probe.m1.lateral_error2 = 0 /\ probe.m2.lateral_error2 = 0
        /\ sin_intersection(probe.m1.intersection_angle_deg) >= PoorSine
              => FLt(probe.m1.max_position_error,
                     probe.m2.max_position_error)

\* the target on sensor 1, sensor 2 elsewhere, on the quotient branch
C7_Witness ==
    /\ pc = "errors"
    /\ probe.done
    /\ probe.m1.range1 = 0
    /\ probe.m1.range2 > 0
    /\ probe.m1.bearing_error_deg > 0
    /\ sin_intersection(probe.m1.intersection_angle_deg) >= PoorSine

\* C8: parametric_study returns len(bearing_errors) * len(ranges) rows; row
\* (i - 1) * len(ranges) + j holds bearing_errors[i] and ranges[j] (outer loop
\* over bearing errors, inner over ranges) and the metrics of the model with
\* sensors at (-baseline/2, 0), (baseline/2, 0) and the target at (0, range).
C8_StudyRows ==
    (pc = "done" /\ study # None) =>
        LET nb == Len(study.bearing_errors)
            nr == Len(study.ranges)
        IN /\ Len(study.df) = nb * nr
           /\ \A i \in 1..nb : \A j \in 1..nr :
                LET row == study.df[(i - 1) * nr + j]
                    m == RDFPositionError(
                            <<-(study.baseline \div 2), 0>>,
                            <<study.baseline \div 2, 0>>,
                            <<0, study.ranges[j]>>,
                            study.bearing_errors[i])
                IN /\ row.bearing_error = study.bearing_errors[i]
                   /\ row.target_range = study.ranges[j]
                   /\ row.baseline = study.baseline
                   /\ row.intersection_angle = m.intersection_angle_deg
                   /\ row.gdop = m.gdop
                   /\ row.max_position_error = m.max_position_error
                   /\ row.error_range = FMul(m.error_range_ratio, 100)

\* a finished study of two different bearing errors and two different ranges
C8_Witness ==
    /\ pc = "done"
    /\ study # None
    /\ Len(study.bearing_errors) = 2
    /\ Len(study.ranges) = 2
    /\ study.bearing_errors[1] # study.bearing_errors[2]
    /\ study.ranges[1] # study.ranges[2]
    /\ study.baseline > 0

\* C9 (as claimed): print_results and display_results each show the poor
\* geometry warning whenever intersection_angle_deg < 30 and the high GDOP
\* warning whenever gdop > 5, also when both hold.
C9_BothWarningsShown ==
    LET poor == model.intersection_angle_deg < PoorAngleDeg * Scale
        high == FGt(model.gdop, HighGdop, Scale)
    IN /\ stdout # None =>
            /\ poor => \E n \in 1..Len(stdout.warnings) :
                          stdout.warnings[n] = "Poor geometry"
            /\ high => \E n \in 1..Len(stdout.warnings) :
                          stdout.warnings[n] = "High GDOP"
       /\ results_text # None =>
            /\ poor => results_text.status = "POOR GEOMETRY"
            /\ high => results_text.status = "HIGH GDOP"

\* C10: a gdop of +inf reaches every consumer as +inf: "inf" in get_results
\* and display_results, the value itself in the Results sheet of
\* export_to_excel and in the rows of parametric_study.
C10_InfinityShown ==
    /\ (stdout # None /\ IsPosInf(model.gdop)) =>
          /\ HasLabel(stdout.results, "GDOP")
          /\ ValueOf(stdout.results, "GDOP") = InfText
    /\ (results_text # None /\ IsPosInf(model.gdop)) =>
          results_text.gdop = InfText
    /\ (xlsx # None /\ IsPosInf(model.gdop)) =>
          /\ HasLabel(xlsx.Results, "GDOP")
          /\ IsPosInf(ValueOf(xlsx.Results, "GDOP"))
    /\ study # None =>
          \A n \in 1..Len(study.results) :
             LET row == study.results[n]
             IN IsPosInf(gdop(sin_intersection(row.intersection_angle)))
                   => IsPosInf(row.gdop)

\* coincident sensors shown, printed and exported from the GUI
C10_Witness ==
    /\ pc = "gui"
    /\ IsPosInf(model.gdop)
    /\ stdout # None
    /\ xlsx # None
    /\ results_text.gdop = InfText

\* the default scenario of the plotter: sensors (-5000, 0) and (5000, 0),
\* target (0, 8000), bearing error 2.0 degrees
IsSymmetricScenario(m) ==
    /\ m.s1 = <<Defaults.s1_x, Defaults.s1_y>>
    /\ m.s2 = <<Defaults.s2_x, Defaults.s2_y>>
    /\ m.target = <<Defaults.target_x, Defaults.target_y>>
    /\ m.bearing_error_deg = Defaults.bearing_error * Scale

\* what C11 says of the symmetric scenario but for the angle: baseline 10000,
\* both ranges 9433.98 (9434 to the metre), the quotient formula taken
\* because sin_intersection > 0.1
SymmetricScenarioFacts(m) ==
    LET sin_int == sin_intersection(m.intersection_angle_deg)
    IN /\ m.baseline = 10000
       /\ m.range1 = m.range2
       /\ m.range1 = 9434
       /\ sin_int > PoorSine
       /\ m.max_position_error
            = FDiv(Sqrt(m.lateral_error1 * m.lateral_error1
                        + m.lateral_error2 * m.lateral_error2) * Scale,
                   sin_int, 1)

\* C11 (as claimed): in the symmetric scenario baseline = 10000, range1 =
\* range2 = 9433.98, the intersection angle is 63.3 degrees to the decimal
\* given, and max_position_error is the quotient since sin_intersection > 0.1.
C11_SymmetricScenarioAsClaimed ==
    (model # None /\ IsSymmetricScenario(model)) =>
        /\ SymmetricScenarioFacts(model)
        /\ 2 * Abs(model.intersection_angle_deg - 63300) <= Scale \div 10

\* C11 (amended): the same, with the intersection angle
\* 2 * atan(5000 / 8000) = 64.0 degrees to one decimal.
C11_SymmetricScenario ==
    (model # None /\ IsSymmetricScenario(model)) =>
        /\ SymmetricScenarioFacts(model)
        /\ 2 * Abs(model.intersection_angle_deg - 64000) <= Scale \div 10

\* the plotter has just been opened on its default scenario
C11_Witness ==
    /\ pc = "gui"
    /\ model # None
    /\ IsSymmetricScenario(model)
    /\ results_text # None

\* a float64 result: a finite number, an infinity or nan
IsFloat(x) == IsFinite(x) \/ IsNaN(x) \/ x \in {Inf, NegInf}

\* C12: a model whose target is on sensor 1 (any sensor 2, any bearing error
\* of the inputs) has range1 = 0, lateral_error1 = 0 and bearing1 = 0, the
\* arctan2 of the zero vector, and calculate runs to its end: every later
\* field holds a float.
C12_TargetOnSensor1 ==
    (model # None /\ model.target = model.s1) =>
        /\ model.range1 = 0
        /\ model.lateral_error1 = 0
        /\ model.bearing1 = 0
        /\ IsFloat(model.gdop)
        /\ IsFloat(model.max_position_error)
        /\ IsFloat(model.error_range_ratio)

\* the target on sensor 1, sensor 2 elsewhere, a bearing error > 0
C12_Witness ==
    /\ model # None
    /\ model.target = model.s1
    /\ model.s2 # model.s1
    /\ model.bearing_error_deg > 0
    /\ model.lateral_error2 > 0

\* the keys of get_results, in the order of the dictionary literal
ResultLabels ==
    <<"Sensor 1 Position (m)", "Sensor 2 Position (m)", "Target Position (m)",
      "Bearing Error (deg)", "Baseline Distance (m)", "Range to Sensor 1 (m)",
      "Range to Sensor 2 (m)", "Intersection Angle (deg)", "GDOP",
      "Lateral Error S1 (m)", "Lateral Error S2 (m)",
      "Max Position Error (m)", "Error/Range Ratio (%)">>
PositionLabels ==
    {"Sensor 1 Position (m)", "Sensor 2 Position (m)", "Target Position (m)"}
\* the scalar values in metres or degrees other than the bearing error
MetreDegreeLabels ==
    {"Baseline Distance (m)", "Range to Sensor 1 (m)",
     "Range to Sensor 2 (m)", "Intersection Angle (deg)",
     "Lateral Error S1 (m)", "Lateral Error S2 (m)",
     "Max Position Error (m)"}
RatioLabels == {"GDOP", "Error/Range Ratio (%)"}

LabelsOf(table) == [n \in 1..Len(table) |-> table[n][1]]
\* v is a number written with exactly d decimals
HasDecimals(v, d) == v.k = "number" /\ v.decimals = d
\* v is x written with d decimals, or the text of a non-finite x
Written(v, x, d) ==
    IF IsFinite(x) THEN HasDecimals(v, d)
    ELSE v.k = "text" /\ v.text \in {"inf", "-inf", "nan"}

\* C13 (as claimed): the mapping of get_results has a fixed set of keys in a
\* fixed order, every value in metres or degrees has exactly one decimal
\* and the gdop and every ratio exactly two.
C13_OneDecimalMetresDegrees ==
    stdout # None =>
        LET t == stdout.results
        IN /\ LabelsOf(t) = ResultLabels
           /\ \A n \in 1..Len(t) :
                /\ t[n][1] \in PositionLabels =>
                      HasDecimals(t[n][2][1], 1) /\ HasDecimals(t[n][2][2], 1)
                /\ t[n][1] \in MetreDegreeLabels \cup {"Bearing Error (deg)"}
                      => HasDecimals(t[n][2], 1)
                /\ t[n][1] \in RatioLabels => HasDecimals(t[n][2], 2)

\* C13 (amended): the keys and their order are fixed; positions, baseline,
\* ranges, intersection angle, lateral errors and a finite max position
\* error have exactly one decimal; the bearing error (degrees), a finite
\* gdop and a finite ratio have exactly two; a value that is not finite is
\* the text inf, -inf or nan, without decimals.
C13_FixedPrecision ==
    stdout # None =>
        LET t == stdout.results
        IN /\ LabelsOf(t) = ResultLabels
           /\ \A n \in 1..Len(t) :
                /\ t[n][1] \in PositionLabels =>
                      HasDecimals(t[n][2][1], 1) /\ HasDecimals(t[n][2][2], 1)
                /\ t[n][1] \in MetreDegreeLabels
                                 \ {"Max Position Error (m)"}
                      => HasDecimals(t[n][2], 1)
                /\ t[n][1] = "Bearing Error (deg)" => HasDecimals(t[n][2], 2)
                /\ t[n][1] = "Max Position Error (m)"
                      => Written(t[n][2], model.max_position_error, 1)
                /\ t[n][1] = "GDOP" => Written(t[n][2], model.gdop, 2)
                /\ t[n][1] = "Error/Range Ratio (%)"
                      => Written(t[n][2], model.error_range_ratio, 2)

\* printed results of a model with a positive bearing error whose gdop and
\* ratio are finite
C13_Witness ==
    /\ stdout # None
    /\ model.bearing_error_deg > 0
    /\ IsFinite(model.gdop)
    /\ IsFinite(model.error_range_ratio)
    /\ model.lateral_error1 > 0
    /\ ValueOf(stdout.results, "GDOP").k = "number"

====
